---- MODULE Spec2Model ----
(***************************************************************************)
(* Model of netlify/functions/validate-code.js: the access-code validator. *)
(*                                                                         *)
(* One invocation of exports.handler is followed from the event it gets to *)
(* the response it returns.  The handler runs synchronously up to the      *)
(* outbound fetch of fetchTodaysAppointments, is suspended while the       *)
(* scheduling service answers (the clock may advance meanwhile), and then  *)
(* runs synchronously to its response.                                     *)
(*                                                                         *)
(* Instants are epoch milliseconds, as in the code.  The instants the      *)
(* model draws lie in the first days after the epoch so that every sum     *)
(* stays within TLC's integers; the arithmetic itself is the code's.       *)
(* JavaScript strings are sequences of one-character strings, so that      *)
(* trim, the format regex and endsWith are computed character by           *)
(* character.                                                              *)
(***************************************************************************)
EXTENDS Integers, Sequences, FiniteSets, TLC

VARIABLES
    env,          \* process.env: GHL_API_KEY, GHL_LOCATION_ID, APPOINTMENT_TZ
    clock,        \* what Date.now() returns
    pc,           \* "idle" | "fetching" (suspended at await fetch) | "done"
    event,        \* the event of the invocation: httpMethod, body
    code,         \* the handler's local `code` (after trim)
    calls,        \* outbound requests issued by this invocation
    nowUtcMs,     \* fetchTodaysAppointments' nowUtcMs
    query,        \* the startDate / endDate sent to the scheduling service
    upstream,     \* what the scheduling service answered
    reached,      \* furthest step of validateCode this invocation reached
    nowMs,        \* validateCode's nowMs
    logged,       \* what console.error was given
    response      \* the handler's return value

vars == <<env, clock, pc, event, code, calls, nowUtcMs, query, upstream,
          reached, nowMs, logged, response>>

----------------------------------------------------------------------------
(* JavaScript values                                                       *)

\* A JSON / JavaScript value as far as the code looks at it.  `t` is the
\* typeof-like tag; `s` the characters of a string; `n` a number's value;
\* `nan` tells the number NaN.
JsVal(t, s, n, nan) == [t |-> t, s |-> s, n |-> n, nan |-> nan]
Undefined == JsVal("undefined", <<>>, 0, FALSE)
Null      == JsVal("null", <<>>, 0, FALSE)
Num(n)    == JsVal("number", <<>>, n, FALSE)
NaNNum    == JsVal("number", <<>>, 0, TRUE)
Str(s)    == JsVal("string", s, 0, FALSE)

\* ToBoolean, as used by || and !
Truthy(v) ==
    CASE v.t = "string" -> v.s # <<>>
      [] v.t = "number" -> ~v.nan /\ v.n # 0
      [] OTHER -> FALSE

Digits == {"0", "1", "2", "3", "4", "5", "6", "7", "8", "9"}
Upper  == {"A", "B", "C", "D", "E", "F", "G", "H", "I", "J", "K", "L", "M",
           "N", "O", "P", "Q", "R", "S", "T", "U", "V", "W", "X", "Y", "Z"}
Lower  == {"a", "b", "c", "d", "e", "f", "g", "h", "i", "j", "k", "l", "m",
           "n", "o", "p", "q", "r", "s", "t", "u", "v", "w", "x", "y", "z"}
WhiteSpace == {" ", "\t", "\n"}

DigitVal(c) ==
    CASE c = "0" -> 0 [] c = "1" -> 1 [] c = "2" -> 2 [] c = "3" -> 3
      [] c = "4" -> 4 [] c = "5" -> 5 [] c = "6" -> 6 [] c = "7" -> 7
      [] c = "8" -> 8 [] c = "9" -> 9

\* parseInt of two decimal digits
parseInt2(s, i) == 10 * DigitVal(s[i]) + DigitVal(s[i + 1])

\* String.prototype.trim
RECURSIVE trimStart(_)
trimStart(s) ==
    IF s # <<>> /\ Head(s) \in WhiteSpace THEN trimStart(Tail(s)) ELSE s

RECURSIVE trimEnd(_)
trimEnd(s) ==
    IF s # <<>> /\ s[Len(s)] \in WhiteSpace
    THEN trimEnd(SubSeq(s, 1, Len(s) - 1)) ELSE s

trim(s) == trimEnd(trimStart(s))

\* String.prototype.endsWith
endsWith(s, suffix) ==
    /\ Len(s) >= Len(suffix)
    /\ SubSeq(s, Len(s) - Len(suffix) + 1, Len(s)) = suffix

----------------------------------------------------------------------------
(* Time window config                                                      *)

WINDOW_BEFORE_MS == 2 * 60 * 60 * 1000
WINDOW_AFTER_MS  == 4 * 60 * 60 * 1000
MsPerDay == 24 * 60 * 60 * 1000

----------------------------------------------------------------------------
(* Helpers                                                                 *)

\* /^([+-])(\d{2}):(\d{2})$/
TzMatches(s) ==
    /\ Len(s) = 6
    /\ s[1] \in {"+", "-"}
    /\ s[2] \in Digits /\ s[3] \in Digits
    /\ s[4] = ":"
    /\ s[5] \in Digits /\ s[6] \in Digits

\* The mutant of parseTzOffsetMs that drops the sign.
parseTzOffsetMs_NoSign(tzStr) ==
    LET s == IF Truthy(tzStr) THEN tzStr.s ELSE <<"+", "0", "0", ":", "0", "0">>
    IN  IF ~TzMatches(s) THEN 0
        ELSE (parseInt2(s, 2) * 60 + parseInt2(s, 5)) * 60 * 1000

parseTzOffsetMs(tzStr) ==
    LET s == IF Truthy(tzStr) THEN tzStr.s ELSE <<"+", "0", "0", ":", "0", "0">>
    IN  IF ~TzMatches(s) THEN 0
        ELSE LET sign == IF s[1] = "+" THEN 1 ELSE -1
             IN  sign * (parseInt2(s, 2) * 60 + parseInt2(s, 5)) * 60 * 1000

\* Date.prototype.setUTCHours(0, 0, 0, 0) on the time value t
SnapToUtcMidnight(t) == (t \div MsPerDay) * MsPerDay

\* fetchTodaysAppointments' day range: startMs and endMs
TodayRange(now, tzOffsetMs) ==
    LET localNow == SnapToUtcMidnight(now + tzOffsetMs)
        startMs  == localNow - tzOffsetMs
        endMs    == startMs + 24 * 60 * 60 * 1000 - 1
    IN  [startDate |-> startMs, endDate |-> endMs]

\* The mutant of isWithinWindow whose upper end is exclusive.
isWithinWindow_HalfOpen(appointmentStartMs, now) ==
    /\ now >= appointmentStartMs - WINDOW_BEFORE_MS
    /\ now <  appointmentStartMs + WINDOW_AFTER_MS

isWithinWindow(appointmentStartMs, now) ==
    /\ now >= appointmentStartMs - WINDOW_BEFORE_MS
    /\ now <= appointmentStartMs + WINDOW_AFTER_MS

\* formatLocalTime: <<display hour, minutes, period>> stands for
\* `${display}:${m} ${period}` with m padded to two digits.
formatLocalTime(epochMs, tzOffsetMs) ==
    LET local   == (epochMs + tzOffsetMs) % MsPerDay
        h       == local \div (60 * 60 * 1000)
        m       == (local \div (60 * 1000)) % 60
        period  == IF h >= 12 THEN "PM" ELSE "AM"
        display == IF h % 12 # 0 THEN h % 12 ELSE 12
    IN  <<display, m, period>>

----------------------------------------------------------------------------
(* Date: new Date(value).getTime()                                         *)

\* A time value: NaN, or ms since the epoch.
TimeNaN   == [nan |-> TRUE, ms |-> 0]
TimeOf(n) == [nan |-> FALSE, ms |-> n]

\* Days from the epoch to the civil date y-m-d (proleptic Gregorian), which
\* is what Date.UTC computes for the date part.
DaysFromCivil(y, m, d) ==
    LET yy  == IF m <= 2 THEN y - 1 ELSE y
        era == yy \div 400
        yoe == yy - era * 400
        mp  == IF m > 2 THEN m - 3 ELSE m + 9
        doy == (153 * mp + 2) \div 5 + d - 1
        doe == yoe * 365 + yoe \div 4 - yoe \div 100 + doy
    IN  era * 146097 + doe - 719468

\* Date.parse of the date-time form YYYY-MM-DDTHH:mm:ssZ, the only form of
\* the ECMAScript date-time string format the model's inputs use; any other
\* text gives NaN.  The inputs hold real calendar dates only.
DateParse(s) ==
    IF /\ Len(s) = 20
       /\ \A i \in {1, 2, 3, 4, 6, 7, 9, 10, 12, 13, 15, 16, 18, 19} : s[i] \in Digits
       /\ s[5] = "-" /\ s[8] = "-" /\ s[11] = "T"
       /\ s[14] = ":" /\ s[17] = ":" /\ s[20] = "Z"
    THEN LET y  == 100 * parseInt2(s, 1) + parseInt2(s, 3)
             mo == parseInt2(s, 6)
             d  == parseInt2(s, 9)
             h  == parseInt2(s, 12)
             mi == parseInt2(s, 15)
             se == parseInt2(s, 18)
         IN  IF mo \in 1..12 /\ d \in 1..31 /\ h \in 0..23 /\ mi \in 0..59 /\ se \in 0..59
             THEN TimeOf(DaysFromCivil(y, mo, d) * MsPerDay
                         + ((h * 60 + mi) * 60 + se) * 1000)
             ELSE TimeNaN
    ELSE TimeNaN

\* new Date(v).getTime() for a value that is not a number
DateGetTime(v) ==
    CASE v.t = "string"    -> DateParse(v.s)
      [] v.t = "null"      -> TimeOf(0)
      [] OTHER             -> TimeNaN

\* The mutant of ResolveStartMs that takes an unreadable start for the epoch.
ResolveStartMs_ZeroDefault(startTime) ==
    LET r == IF startTime.t = "number"
             THEN (IF startTime.nan THEN TimeNaN ELSE TimeOf(startTime.n))
             ELSE DateGetTime(startTime)
    IN  IF r.nan THEN TimeOf(0) ELSE r

\* validateCode: startTime may be epoch ms (number) or an ISO string
ResolveStartMs(startTime) ==
    IF startTime.t = "number"
    THEN (IF startTime.nan THEN TimeNaN ELSE TimeOf(startTime.n))
    ELSE DateGetTime(startTime)

----------------------------------------------------------------------------
(* Errors and responses                                                    *)

\* An Error: its message text, and the upstream status and body the text
\* of the upstream error embeds.
Err(msg, status, body) == [msg |-> msg, status |-> status, body |-> body]
NoErr == Err("", 0, "")

GenericError   == "Internal server error. Please try again."
FormatError    == "Invalid code format. Expected 4 alphanumeric characters."
NoMatchError   == "No appointment found for today with this code."
\* The code's text has a dash and an arrow that are not ASCII.
AmbiguousError == "Ambiguous code - multiple appointments match. Please contact us."
StartTimeError == "Could not read appointment start time."
\* The formatted time that follows "Appointment is at" is the response's `time`.
WindowError    == "Appointment is at <time> but you are outside the access window (2 hours before -> 4 hours after appointment time)."

\* A handler response.  `json` tells a JSON body (the 204 has none);
\* `error` is "" when the body has no error key; `time` is the formatted
\* local time inside the window-violation text, <<>> elsewhere.
Response(statusCode, valid, error) ==
    [statusCode |-> statusCode, json |-> TRUE, valid |-> valid,
     error |-> error, time |-> <<>>]
NoResponse == [statusCode |-> 0, json |-> FALSE, valid |-> FALSE,
               error |-> "", time |-> <<>>]

\* A verdict of validateCode, with the furthest step it reached.
Verdict(valid, error, time, step, t) ==
    [valid |-> valid, error |-> error, time |-> time, step |-> step, nowMs |-> t]

----------------------------------------------------------------------------
(* Validation logic                                                        *)

\* The mutant of FormatOk that checks the characters and not the length.
FormatOk_AnyLength(c) == \A i \in 1..Len(c) : c[i] \in Digits \cup Upper \cup Lower

\* /^[A-Za-z0-9]{4}$/.test(code)
FormatOk(c) ==
    /\ Len(c) = 4
    /\ \A i \in 1..4 : c[i] \in Digits \cup Upper \cup Lower

\* The mutant of IsMatch that compares the whole identifier.
IsMatch_Equality(appt, c) == appt.contactId.t = "string" /\ appt.contactId.s = c

\* (appt) => typeof appt.contactId === "string" && appt.contactId.endsWith(code)
IsMatch(appt, c) == appt.contactId.t = "string" /\ endsWith(appt.contactId.s, c)

\* appointments.filter(...)
Matches(appointments, c) == SelectSeq(appointments, LAMBDA appt : IsMatch(appt, c))

\* The mutant of Decide that takes the first of several matches.
Decide_FirstMatch(c, appointments, now, tz) ==
    LET matches == Matches(appointments, c)
    IN  IF Len(matches) = 0
        THEN Verdict(FALSE, NoMatchError, <<>>, "match", 0)
        ELSE LET startMs == ResolveStartMs(matches[1].startTime)
             IN  IF startMs.nan
                 THEN Verdict(FALSE, StartTimeError, <<>>, "start", 0)
                 ELSE IF isWithinWindow(startMs.ms, now)
                 THEN Verdict(TRUE, "", <<>>, "window", now)
                 ELSE Verdict(FALSE, WindowError,
                              formatLocalTime(startMs.ms, parseTzOffsetMs(tz)), "window", now)

\* validateCode from the filter on: the appointments are those the lookup
\* returned, `now` is what Date.now() returns when the window is checked.
Decide(c, appointments, now, tz) ==
    LET matches == Matches(appointments, c)
    IN  IF Len(matches) = 0
        THEN Verdict(FALSE, NoMatchError, <<>>, "match", 0)
        ELSE IF Len(matches) > 1
        THEN Verdict(FALSE, AmbiguousError,
                     <<>>, "match", 0)
        ELSE LET startMs == ResolveStartMs(matches[1].startTime)
             IN  IF startMs.nan
                 THEN Verdict(FALSE, StartTimeError, <<>>, "start", 0)
                 ELSE IF isWithinWindow(startMs.ms, now)
                 THEN Verdict(TRUE, "", <<>>, "window", now)
                 ELSE Verdict(FALSE, WindowError,
                              formatLocalTime(startMs.ms, parseTzOffsetMs(tz)), "window", now)

----------------------------------------------------------------------------
(* The lookup: fetchTodaysAppointments after the fetch settles             *)

\* What the scheduling service answers.  kind "reject": fetch rejects (no
\* response at all).  Otherwise a response with `status` and raw body
\* `text`; `json` tells what response.json() makes of the body
\* ("unparsable", "null", "primitive", "object"), `list` what the object's
\* appointments field holds ("absent", "null", "notarray", "array") and
\* `appts` the records of the array.
Upstream(kind, status, text, json, list, appts) ==
    [kind |-> kind, status |-> status, text |-> text, json |-> json,
     list |-> list, appts |-> appts]
NoUpstream == Upstream("none", 0, "", "object", "absent", <<>>)

\* The result of the lookup: an Error thrown, or the value returned
\* (isArray tells whether it is an array at all).
Thrown(err)              == [threw |-> TRUE, err |-> err, isArray |-> FALSE, appts |-> <<>>]
Returned(isArray, appts) == [threw |-> FALSE, err |-> NoErr, isArray |-> isArray, appts |-> appts]

\* The mutant of LookupResult that reads the list without the ?? [] default.
LookupResult_NoDefault(up) ==
    IF up.kind = "reject" THEN Thrown(Err("fetch failed", 0, ""))
    ELSE IF up.status \notin 200..299
    THEN Thrown(Err("GHL appointments API returned <status>: <body>", up.status, up.text))
    ELSE IF up.json = "unparsable" THEN Thrown(Err("Unexpected token in JSON", 0, ""))
    ELSE IF up.json = "null" THEN Thrown(Err("Cannot read properties of null", 0, ""))
    ELSE IF up.json = "primitive" THEN Returned(FALSE, <<>>)
    ELSE IF up.list \in {"absent", "null"} THEN Returned(FALSE, <<>>)
    ELSE IF up.list = "notarray" THEN Returned(FALSE, <<>>)
    ELSE Returned(TRUE, up.appts)

\* if (!response.ok) throw ...; data = await response.json();
\* return data.appointments ?? []
LookupResult(up) ==
    IF up.kind = "reject" THEN Thrown(Err("fetch failed", 0, ""))
    ELSE IF up.status \notin 200..299
    THEN Thrown(Err("GHL appointments API returned <status>: <body>", up.status, up.text))
    ELSE IF up.json = "unparsable" THEN Thrown(Err("Unexpected token in JSON", 0, ""))
    ELSE IF up.json = "null" THEN Thrown(Err("Cannot read properties of null", 0, ""))
    ELSE IF up.json = "primitive" THEN Returned(TRUE, <<>>)
    ELSE IF up.list \in {"absent", "null"} THEN Returned(TRUE, <<>>)
    ELSE IF up.list = "notarray" THEN Returned(FALSE, <<>>)
    ELSE Returned(TRUE, up.appts)

----------------------------------------------------------------------------
(* Netlify handler                                                         *)

\* An event body: `kind` tells what JSON.parse(event.body || "{}") gives:
\* "absent" (no body or an empty one, so "{}"), "malformed" (it throws),
\* "null", "primitive" (a number, a string, an array: no such fields) or
\* "object" with the fields contactId and code.
Body(kind, contactId, codeField) == [kind |-> kind, contactId |-> contactId, code |-> codeField]
Event(httpMethod, body) == [httpMethod |-> httpMethod, body |-> body]
NoEvent == Event("", Body("absent", Undefined, Undefined))

\* The mutant of ParseCode whose catch goes on with an empty code.
ParseCode_SwallowError(body) ==
    CASE body.kind \in {"malformed", "null", "absent", "primitive"} ->
           [threw |-> FALSE, code |-> <<>>]
      [] OTHER ->
           LET v == IF Truthy(body.contactId) THEN body.contactId
                    ELSE IF Truthy(body.code) THEN body.code
                    ELSE Str(<<>>)
           IN  IF v.t # "string" THEN [threw |-> FALSE, code |-> <<>>]
               ELSE [threw |-> FALSE, code |-> trim(v.s)]

\* The try block of the handler: [threw, code]
ParseCode(body) ==
    CASE body.kind = "malformed" -> [threw |-> TRUE, code |-> <<>>]
      [] body.kind = "null"      -> [threw |-> TRUE, code |-> <<>>]
      [] body.kind \in {"absent", "primitive"} -> [threw |-> FALSE, code |-> <<>>]
      [] OTHER ->
           LET v == IF Truthy(body.contactId) THEN body.contactId
                    ELSE IF Truthy(body.code) THEN body.code
                    ELSE Str(<<>>)
           IN  IF v.t # "string" THEN [threw |-> TRUE, code |-> <<>>]
               ELSE [threw |-> FALSE, code |-> trim(v.s)]

\* The mutant of CatchResponse that returns the error's own text.
CatchResponse_Leaky(err) == Response(500, FALSE, err.msg)

\* The handler's catch block
CatchResponse(err) == Response(500, FALSE, GenericError)

\* The handler's return of a verdict
VerdictResponse(v) ==
    [statusCode |-> 200, json |-> TRUE, valid |-> v.valid, error |-> v.error,
     time |-> v.time]

----------------------------------------------------------------------------
(* Inputs                                                                  *)

\* The longest appointment list the scheduling service answers with.
MaxAppts == 2

\* The start of the appointments of the model: 1970-01-02T03:00:00Z.
StartInstant == MsPerDay + 3 * 60 * 60 * 1000
StartIso == <<"1", "9", "7", "0", "-", "0", "1", "-", "0", "2", "T",
              "0", "3", ":", "0", "0", ":", "0", "0", "Z">>

\* The instants the clock takes: the ends of the access window around
\* StartInstant and their neighbours one millisecond outside, the start
\* itself, and an instant next to the epoch (local time before the epoch
\* under a negative offset).
Instants ==
    {1,
     StartInstant - WINDOW_BEFORE_MS - 1, StartInstant - WINDOW_BEFORE_MS,
     StartInstant,
     StartInstant + WINDOW_AFTER_MS, StartInstant + WINDOW_AFTER_MS + 1}

\* The values of APPOINTMENT_TZ: unset, and two offsets of the form
\* sign-HH:MM.  (DayTzStrings below holds the malformed ones.)
TzStrings ==
    {Undefined,
     Str(<<"-", "0", "5", ":", "0", "0">>),
     Str(<<"+", "0", "5", ":", "3", "0">>)}

Envs ==
    [GHL_API_KEY : BOOLEAN, GHL_LOCATION_ID : BOOLEAN, APPOINTMENT_TZ : TzStrings]

TheCode == <<"W", "Z", "0", "e">>

\* The strings a request carries as its code.
LowerCode == <<"w", "z", "0", "e">>
WellFormedCodes ==
    {TheCode,
     <<" ", "W", "Z", "0", "e", "\n">>}
OtherCodes ==
    {<<>>,
     <<" ", " ">>,
     <<"W", "Z", "0">>,
     <<"x", "W", "Z", "0", "e">>,
     <<"W", "Z", "-", "e">>,
     <<"W", " ", "0", "e">>}

Bodies ==
    {Body("absent", Undefined, Undefined),
     Body("malformed", Undefined, Undefined),
     Body("null", Undefined, Undefined),
     Body("primitive", Undefined, Undefined),
     Body("object", Undefined, Undefined),
     Body("object", Num(1234), Undefined),
     Body("object", Num(0), Str(LowerCode)),
     Body("object", Str(<<"W", "Z", "0">>), Str(TheCode))}
    \cup {Body("object", Str(c), Undefined) : c \in WellFormedCodes \cup OtherCodes}
    \cup {Body("object", Undefined, Str(c)) : c \in {<<"W", "Z", "-", "e">>}}

Events ==
    {Event("POST", b) : b \in Bodies}
    \cup {Event("OPTIONS", Body("absent", Undefined, Undefined)),
          Event("GET", Body("object", Str(TheCode), Undefined))}

Appt(contactId, startTime) == [contactId |-> contactId, startTime |-> startTime]

\* The appointment records the scheduling service answers with.
ApptPool ==
    {Appt(Str(<<"x", "W", "Z", "0", "e">>), Num(StartInstant)),
     Appt(Str(<<"x", "W", "Z", "0", "e">>), Str(StartIso)),
     Appt(Str(<<"x", "w", "z", "0", "e">>), Num(StartInstant)),
     Appt(Num(1234), Num(StartInstant)),
     Appt(Str(<<"y", "W", "Z", "0", "e">>), Str(<<>>)),
     Appt(Str(<<"x", "W", "Z", "0", "e">>), Undefined),
     Appt(Str(<<"x", "W", "Z", "0", "e">>), Str(<<"s", "o", "o", "n">>)),
     Appt(Str(<<"x", "W", "Z", "0", "e">>), NaNNum),
     Appt(Str(<<"x", "W", "Z", "0", "e">>), Null)}

ApptLists == UNION {[1..n -> ApptPool] : n \in 0..MaxAppts}

Upstreams ==
    {Upstream("reject", 0, "", "object", "absent", <<>>),
     Upstream("response", 500, "upstream stack trace", "unparsable", "absent", <<>>),
     Upstream("response", 401, "{\"msg\":\"bad key\"}", "object", "absent", <<>>),
     Upstream("response", 200, "<html>", "unparsable", "absent", <<>>),
     Upstream("response", 200, "null", "null", "absent", <<>>),
     Upstream("response", 200, "42", "primitive", "absent", <<>>),
     Upstream("response", 200, "{}", "object", "absent", <<>>),
     Upstream("response", 200, "{\"appointments\":null}", "object", "null", <<>>),
     Upstream("response", 200, "{\"appointments\":{}}", "object", "notarray", <<>>)}
    \cup {Upstream("response", 200, "{\"appointments\":[...]}", "object", "array", l) :
            l \in ApptLists}

----------------------------------------------------------------------------
(* The state machine                                                       *)

Init ==
    /\ env \in Envs
    /\ clock \in Instants
    /\ pc = "idle"
    /\ event = NoEvent
    /\ code = <<>>
    /\ calls = 0
    /\ nowUtcMs = 0
    /\ query = [startDate |-> 0, endDate |-> 0]
    /\ upstream = NoUpstream
    /\ reached = "none"
    /\ nowMs = 0
    /\ logged = NoErr
    /\ response = NoResponse

\* The handler returns `r` without having called validateCode.
Reject(ev, r) ==
    /\ pc' = "done"
    /\ event' = ev
    /\ response' = r
    /\ UNCHANGED <<env, clock, code, calls, nowUtcMs, query, upstream, reached,
                   nowMs, logged>>

\* validateCode(c) up to the point where fetchTodaysAppointments suspends at
\* `await fetch(...)`, or to the handler's return when it does not get there.
CallValidate(ev, c) ==
    /\ event' = ev
    /\ code' = c
    /\ UNCHANGED <<env, clock, upstream, nowMs>>
    /\ IF ~FormatOk(c)
       THEN /\ pc' = "done"
            /\ reached' = "format"
            /\ response' = VerdictResponse(Verdict(FALSE, FormatError, <<>>, "format", 0))
            /\ UNCHANGED <<calls, nowUtcMs, query, logged>>
       ELSE IF ~env.GHL_LOCATION_ID
       THEN LET err == Err("GHL_LOCATION_ID environment variable is not set.", 0, "")
            IN  /\ pc' = "done"
                /\ reached' = "lookup"
                /\ logged' = err
                /\ response' = CatchResponse(err)
                /\ UNCHANGED <<calls, nowUtcMs, query>>
       ELSE /\ reached' = "lookup"
            /\ nowUtcMs' = clock
            /\ query' = TodayRange(clock, parseTzOffsetMs(env.APPOINTMENT_TZ))
            /\ IF ~env.GHL_API_KEY
               THEN LET err == Err("GHL_API_KEY environment variable is not set.", 0, "")
                    IN  /\ pc' = "done"
                        /\ logged' = err
                        /\ response' = CatchResponse(err)
                        /\ UNCHANGED calls
               ELSE /\ pc' = "fetching"
                    /\ calls' = calls + 1
                    /\ UNCHANGED <<logged, response>>

\* exports.handler, from the event to its return or to the await of fetch.
Handle(ev) ==
    /\ pc = "idle"
    /\ IF ev.httpMethod = "OPTIONS"
       THEN Reject(ev, [statusCode |-> 204, json |-> FALSE, valid |-> FALSE,
                        error |-> "", time |-> <<>>])
       ELSE IF ev.httpMethod # "POST"
       THEN Reject(ev, Response(405, FALSE, "Method not allowed."))
       ELSE LET parsed == ParseCode(ev.body)
            IN  IF parsed.threw
                THEN Reject(ev, Response(400, FALSE, "Invalid JSON body."))
                ELSE IF parsed.code = <<>>
                THEN Reject(ev, Response(400, FALSE, "contactId is required."))
                ELSE CallValidate(ev, parsed.code)

\* The fetch settles with `up`; fetchTodaysAppointments, validateCode and the
\* handler run on to the handler's return.
FetchSettles(up) ==
    /\ pc = "fetching"
    /\ pc' = "done"
    /\ upstream' = up
    /\ UNCHANGED <<env, clock, event, code, calls, nowUtcMs, query>>
    /\ LET got == LookupResult(up)
       IN  IF got.threw
           THEN /\ logged' = got.err
                /\ response' = CatchResponse(got.err)
                /\ UNCHANGED <<reached, nowMs>>
           ELSE IF ~got.isArray
           THEN LET err == Err("appointments.filter is not a function", 0, "")
                IN  /\ logged' = err
                    /\ response' = CatchResponse(err)
                    /\ reached' = "match"
                    /\ UNCHANGED nowMs
           ELSE LET v == Decide(code, got.appts, clock, env.APPOINTMENT_TZ)
                IN  /\ response' = VerdictResponse(v)
                    /\ reached' = v.step
                    /\ nowMs' = v.nowMs
                    /\ UNCHANGED logged

\* Time passes while the invocation waits.
Tick ==
    /\ pc \in {"idle", "fetching"}
    /\ \E t \in Instants : t > clock /\ clock' = t
    /\ UNCHANGED <<env, pc, event, code, calls, nowUtcMs, query, upstream,
                   reached, nowMs, logged, response>>

\* The next invocation starts afresh: nothing but the environment and the
\* clock outlives a request.
NextInvocation ==
    /\ pc = "done"
    /\ pc' = "idle"
    /\ event' = NoEvent
    /\ code' = <<>>
    /\ calls' = 0
    /\ nowUtcMs' = 0
    /\ query' = [startDate |-> 0, endDate |-> 0]
    /\ upstream' = NoUpstream
    /\ reached' = "none"
    /\ nowMs' = 0
    /\ logged' = NoErr
    /\ response' = NoResponse
    /\ UNCHANGED <<env, clock>>

Next ==
    \/ \E ev \in Events : Handle(ev)
    \/ \E up \in Upstreams : FetchSettles(up)
    \/ Tick
    \/ NextInvocation

Spec == Init /\ [][Next]_vars

----------------------------------------------------------------------------
(* The day range on its own: the handler is run, up to its outbound        *)
(* request, at many instants and under many values of APPOINTMENT_TZ.      *)

\* The instants reach MaxQuarterDays quarters of a day after the epoch.
MaxQuarterDays == 8

\* Every quarter of a day, with the millisecond before and after it.
DayInstants ==
    {k * (MsPerDay \div 4) + d : k \in 0..MaxQuarterDays, d \in {-1, 0, 1}} \ {-1}

\* Offsets of the form sign-HH:MM, and malformed values.
DayTzStrings ==
    {Undefined,
     Str(<<>>),
     Str(<<"+", "0", "0", ":", "0", "0">>),
     Str(<<"-", "0", "5", ":", "0", "0">>),
     Str(<<"+", "0", "5", ":", "3", "0">>),
     Str(<<"+", "1", "4", ":", "0", "0">>),
     Str(<<"-", "1", "2", ":", "0", "0">>),
     Str(<<"-", "0", "0", ":", "3", "0">>),
     Str(<<"+", "9", "9", ":", "9", "9">>),
     Str(<<"-", "5", ":", "0", "0">>),
     Str(<<"0", "5", ":", "0", "0">>),
     Str(<<"+", "0", "5", "3", "0">>),
     Str(<<"+", "0", "5", "-", "3", "0">>),
     Str(<<"+", "a", "b", ":", "c", "d">>),
     Str(<<" ", "+", "0", "5", ":", "3", "0">>),
     Str(<<"+", "0", "5", ":", "3", "0", "Z">>),
     Str(<<"U", "T", "C">>)}

InitDay ==
    /\ env \in [GHL_API_KEY : BOOLEAN, GHL_LOCATION_ID : BOOLEAN,
                APPOINTMENT_TZ : DayTzStrings]
    /\ clock \in DayInstants
    /\ pc = "idle"
    /\ event = NoEvent
    /\ code = <<>>
    /\ calls = 0
    /\ nowUtcMs = 0
    /\ query = [startDate |-> 0, endDate |-> 0]
    /\ upstream = NoUpstream
    /\ reached = "none"
    /\ nowMs = 0
    /\ logged = NoErr
    /\ response = NoResponse

NextDay ==
    \/ Handle(Event("POST", Body("object", Str(TheCode), Undefined)))
    \/ NextInvocation

SpecDay == InitDay /\ [][NextDay]_vars

----------------------------------------------------------------------------
(* The handler against a scheduling service that holds its appointments    *)
(* and answers each lookup with exactly those whose start lies in the      *)
(* queried [startDate, endDate] range.                                     *)

\* What the service holds: one appointment whose contactId ends with
\* TheCode, starting at StartInstant, and one of another contact.
Store ==
    <<Appt(Str(<<"x", "W", "Z", "0", "e">>), Num(StartInstant)),
      Appt(Str(<<"x", "w", "z", "0", "e">>), Num(StartInstant))>>

\* The service's answer to the query q.
StoreAnswer(q) ==
    Upstream("response", 200, "{\"appointments\":[...]}", "object", "array",
             SelectSeq(Store, LAMBDA a : /\ q.startDate <= a.startTime.n
                                         /\ a.startTime.n <= q.endDate))

InitStore ==
    /\ env \in [GHL_API_KEY : {TRUE}, GHL_LOCATION_ID : {TRUE},
                APPOINTMENT_TZ : TzStrings]
    /\ clock \in Instants
    /\ pc = "idle"
    /\ event = NoEvent
    /\ code = <<>>
    /\ calls = 0
    /\ nowUtcMs = 0
    /\ query = [startDate |-> 0, endDate |-> 0]
    /\ upstream = NoUpstream
    /\ reached = "none"
    /\ nowMs = 0
    /\ logged = NoErr
    /\ response = NoResponse

\* The fetch settles with the service's answer to the query that was sent.
StoreSettles == FetchSettles(StoreAnswer(query))

NextStore ==
    \/ \E c \in WellFormedCodes : Handle(Event("POST", Body("object", Str(c), Undefined)))
    \/ StoreSettles
    \/ Tick
    \/ NextInvocation

SpecStore == InitStore /\ [][NextStore]_vars

----------------------------------------------------------------------------
(* Properties.  The vocabulary below states the claims in terms of the     *)
(* request and of the answer of the scheduling service, not of the         *)
(* operators the handler is built from.                                    *)

\* The code matches ^[A-Za-z0-9]{4}$.
WellFormed(c) == Len(c) = 4 /\ \A i \in DOMAIN c : c[i] \in Digits \cup Upper \cup Lower

\* The contact identifier is a string whose last Len(c) characters are c.
HasSuffix(contactId, c) ==
    /\ contactId.t = "string"
    /\ Len(contactId.s) >= Len(c)
    /\ \A j \in 1..Len(c) : contactId.s[Len(contactId.s) - Len(c) + j] = c[j]

\* validateCode was called in this invocation and the invocation is over.
Validated == pc = "done" /\ event.httpMethod = "POST" /\ code # <<>>

\* The lookup of this invocation returned the appointment list upstream.appts.
LookupReturnedList ==
    /\ Validated /\ WellFormed(code)
    /\ upstream.kind = "response" /\ upstream.status \in 200..299
    /\ upstream.json = "object" /\ upstream.list = "array"

\* The places of the returned appointments whose contactId ends with the code.
MatchIdx == {i \in DOMAIN upstream.appts : HasSuffix(upstream.appts[i].contactId, code)}

\* The start-time fields that stand for no instant: a missing field, an
\* empty string, text that is no date, NaN.
UnreadableStarts == {Undefined, Str(<<>>), Str(<<"s", "o", "o", "n">>), NaNNum}

\* The instant a readable start-time field of the model stands for.
StartOf(startTime) ==
    CASE startTime = Num(StartInstant) -> StartInstant
      [] startTime = Str(StartIso)     -> StartInstant
      [] startTime = Null              -> 0

InWindow(s, t) == s - 2 * 3600000 <= t /\ t <= s + 4 * 3600000

\* C1: whenever the handler answers valid:true, the lookup of that call
\* returned a list holding exactly one appointment whose contactId ends with
\* the submitted code, its start s is readable, and the evaluation instant t
\* (the clock when the window was checked) satisfies s - 2h <= t <= s + 4h.
C1_ValidMeansOneMatchInWindow ==
    (pc = "done" /\ response.valid) =>
        /\ LookupReturnedList
        /\ Cardinality(MatchIdx) = 1
        /\ nowMs = clock
        /\ \A i \in MatchIdx :
             /\ upstream.appts[i].startTime \notin UnreadableStarts
             /\ InWindow(StartOf(upstream.appts[i].startTime), nowMs)

\* A valid:true answer for a list of two appointments, one of which matches.
C1_Witness ==
    /\ pc = "done" /\ response.valid
    /\ Len(upstream.appts) = 2 /\ Cardinality(MatchIdx) = 1

\* C2: a validate call whose code does not match ^[A-Za-z0-9]{4}$ returns
\* valid:false with the format-error reason, stops at the format check and
\* issues no outbound request.
C2_IllFormedNeverLooksUp ==
    (event.httpMethod = "POST" /\ code # <<>> /\ ~WellFormed(code)) =>
        /\ pc = "done"
        /\ ~response.valid /\ response.error = FormatError
        /\ reached = "format"
        /\ calls = 0
        /\ upstream = NoUpstream

\* A five-character alphanumeric code was refused at the format check.
C2_Witness ==
    /\ pc = "done" /\ Len(code) = 5 /\ \A i \in DOMAIN code : code[i] \in Digits \cup Upper \cup Lower
    /\ response.error = FormatError /\ calls = 0

\* C3: with a well-formed code matching exactly one appointment whose start
\* s is readable, the answer is valid:true exactly when s - 2h <= t <= s + 4h
\* for the evaluation instant t, ends included, and otherwise valid:false
\* with the window-violation reason.
C3_WindowIsInclusive ==
    (LookupReturnedList /\ Cardinality(MatchIdx) = 1) =>
        \A i \in MatchIdx :
            LET st == upstream.appts[i].startTime
            IN  st \notin UnreadableStarts =>
                  /\ response.statusCode = 200
                  /\ response.valid <=> InWindow(StartOf(st), clock)
                  /\ ~response.valid => response.error = WindowError

\* valid:true at t = s + 4h exactly.
C3_Witness ==
    /\ LookupReturnedList /\ Cardinality(MatchIdx) = 1
    /\ \A i \in MatchIdx : upstream.appts[i].startTime = Str(StartIso)
    /\ clock = StartInstant + 4 * 3600000
    /\ response.valid

\* C4: with a well-formed code, no returned appointment whose contactId ends
\* with the code (compared character by character, case included) gives
\* valid:false with the no-appointment reason, and two or more give
\* valid:false with the ambiguous reason, whether or not any of them is in
\* its window.
C4_MatchCountDecides ==
    LookupReturnedList =>
        /\ Cardinality(MatchIdx) = 0 =>
             /\ response.statusCode = 200 /\ ~response.valid
             /\ response.error = NoMatchError
        /\ Cardinality(MatchIdx) >= 2 =>
             /\ response.statusCode = 200 /\ ~response.valid
             /\ response.error = AmbiguousError

\* The ambiguous answer for two matches that are both inside their window.
C4_Witness ==
    /\ LookupReturnedList /\ Cardinality(MatchIdx) = 2
    /\ \A i \in MatchIdx :
         /\ upstream.appts[i].startTime \notin UnreadableStarts
         /\ InWindow(StartOf(upstream.appts[i].startTime), clock)
    /\ response.error = AmbiguousError

\* C5: as the README has it, when any appointment of the submitted contact
\* scheduled today (its start given as epoch ms or as an ISO string, inside
\* the queried day) is inside its access window at the evaluation instant,
\* the answer is valid:true.
C5_AnyInWindowGrants ==
    (LookupReturnedList /\
     \E i \in MatchIdx :
         /\ upstream.appts[i].startTime \in {Num(StartInstant), Str(StartIso)}
         /\ query.startDate <= StartInstant /\ StartInstant <= query.endDate
         /\ InWindow(StartInstant, clock))
    => response.valid

\* The lookup of this invocation failed on missing configuration or on a
\* non-success answer of the scheduling service.
LookupFailed ==
    /\ Validated /\ WellFormed(code)
    /\ \/ ~env.GHL_LOCATION_ID
       \/ ~env.GHL_API_KEY
       \/ upstream.kind = "response" /\ upstream.status \notin 200..299

\* C6: when the lookup fails on a non-success upstream status or on missing
\* configuration, the caller gets status 500 with the one generic message,
\* the same whatever the upstream status, upstream body or error text, and
\* no business verdict; the error's own text goes to the log.
C6_LookupFailureIsGeneric500 ==
    LookupFailed =>
        /\ response = [statusCode |-> 500, json |-> TRUE, valid |-> FALSE,
                       error |-> "Internal server error. Please try again.",
                       time |-> <<>>]
        /\ logged # NoErr
        /\ logged.status = upstream.status /\ logged.body = upstream.text

\* The generic answer to an upstream 500 whose body went to the log only.
C6_Witness ==
    /\ LookupFailed /\ upstream.status = 500
    /\ response.statusCode = 500 /\ response.error = GenericError
    /\ logged.body = "upstream stack trace"

\* C7 as stated: every input validation failure at the entry point (missing
\* or empty code, malformed JSON body, code of the wrong format) is answered
\* with a 4xx status and a reason, without an outbound request.
C7_InputFailureIs4xx ==
    (pc = "done" /\ event.httpMethod = "POST" /\ ~WellFormed(code)) =>
        /\ response.statusCode \in 400..499
        /\ ~response.valid /\ response.error # ""
        /\ calls = 0

\* C7 as amended: a malformed JSON body and a missing or empty code are
\* answered with status 400 and their reason; a code of the wrong format is
\* answered with status 200 carrying valid:false and the format-error
\* reason; none of them issues an outbound request.
C7_InputFailureNeverLooksUp ==
    (pc = "done" /\ event.httpMethod = "POST" /\ ~WellFormed(code)) =>
        /\ calls = 0 /\ upstream = NoUpstream
        /\ ~response.valid
        /\ event.body.kind = "malformed" =>
             response.statusCode = 400 /\ response.error = "Invalid JSON body."
        /\ event.body.kind = "absent" =>
             response.statusCode = 400 /\ response.error = "contactId is required."
        /\ code = <<>> =>
             /\ response.statusCode = 400
             /\ response.error \in {"Invalid JSON body.", "contactId is required."}
        /\ code # <<>> =>
             response.statusCode = 200 /\ response.error = FormatError

\* Status 200 with the format-error reason for a code holding a dash.
C7_Witness ==
    /\ pc = "done" /\ event.httpMethod = "POST"
    /\ Len(code) = 4 /\ code[3] = "-"
    /\ response.statusCode = 200 /\ response.error = FormatError /\ calls = 0

\* The scheduling service answered with a success status.
AnsweredOk ==
    /\ Validated /\ WellFormed(code)
    /\ upstream.kind = "response" /\ upstream.status \in 200..299

\* C8 as stated: a success-status answer whose body is unparsable, or is not
\* an object holding a list of appointment records, is a lookup failure: an
\* error is raised and no business verdict is returned.
C8_MalformedBodyIsFailure ==
    (AnsweredOk /\ (upstream.json # "object" \/ upstream.list # "array")) =>
        /\ logged # NoErr
        /\ response.statusCode = 500

\* C8 as amended: a success-status answer whose body is unparsable or is
\* JSON null is a lookup failure (an error is raised, no business verdict);
\* a parsed body whose list field is absent or null is taken for an empty
\* appointment set and answered with the no-appointment reason; a list
\* field that holds no array raises an error when it is filtered.
C8_AbsentListIsEmptySet ==
    AnsweredOk =>
        /\ upstream.json \in {"unparsable", "null"} =>
             /\ logged # NoErr
             /\ response = [statusCode |-> 500, json |-> TRUE, valid |-> FALSE,
                            error |-> GenericError, time |-> <<>>]
        /\ (upstream.json = "primitive"
            \/ (upstream.json = "object" /\ upstream.list \in {"absent", "null"})) =>
             /\ logged = NoErr
             /\ response = [statusCode |-> 200, json |-> TRUE, valid |-> FALSE,
                            error |-> NoMatchError, time |-> <<>>]
        /\ (upstream.json = "object" /\ upstream.list = "notarray") =>
             /\ logged # NoErr
             /\ response.statusCode = 500

\* The no-appointment answer to a success-status body {} without the list.
C8_Witness ==
    /\ AnsweredOk /\ upstream.json = "object" /\ upstream.list = "absent"
    /\ response.statusCode = 200 /\ response.error = NoMatchError

\* The offset, in minutes, of each value of APPOINTMENT_TZ: signed
\* HH*60+MM for the form sign-HH:MM, 0 for an absent or malformed value.
OffsetMinutes(tz) ==
    CASE tz = Str(<<"-", "0", "5", ":", "0", "0">>) -> -(5 * 60 + 0)
      [] tz = Str(<<"+", "0", "5", ":", "3", "0">>) -> 5 * 60 + 30
      [] tz = Str(<<"+", "1", "4", ":", "0", "0">>) -> 14 * 60 + 0
      [] tz = Str(<<"-", "1", "2", ":", "0", "0">>) -> -(12 * 60 + 0)
      [] tz = Str(<<"-", "0", "0", ":", "3", "0">>) -> -(0 * 60 + 30)
      [] tz = Str(<<"+", "9", "9", ":", "9", "9">>) -> 99 * 60 + 99
      [] OTHER -> 0

\* fetchTodaysAppointments computed its day range in this invocation.
RangeComputed ==
    /\ pc \in {"fetching", "done"} /\ event.httpMethod = "POST" /\ WellFormed(code)
    /\ env.GHL_LOCATION_ID

\* C9: the queried range starts at a local midnight under the configured
\* offset (0 when the offset is absent or malformed), contains the instant
\* now it was computed from, and ends 24h - 1ms after its start.
C9_RangeIsLocalDay ==
    RangeComputed =>
        LET off == OffsetMinutes(env.APPOINTMENT_TZ) * 60000
        IN  /\ (query.startDate + off) % 86400000 = 0
            /\ query.startDate <= nowUtcMs /\ nowUtcMs <= query.endDate
            /\ query.endDate = query.startDate + 86400000 - 1

\* The range of a request one millisecond before UTC midnight at offset
\* +05:30: the local day is already the next one, and began 18.5h earlier.
C9_Witness ==
    /\ RangeComputed /\ nowUtcMs = 86400000 - 1
    /\ env.APPOINTMENT_TZ = Str(<<"+", "0", "5", ":", "3", "0">>)
    /\ query.startDate = 86400000 - 330 * 60000

\* C10: when the code matches exactly one appointment whose start-time
\* field stands for no instant (empty string, missing field, non-date text,
\* NaN), the answer is valid:false with the unreadable-start reason: nothing
\* is thrown and the window check is not reached.
C10_UnreadableStartIsVerdict ==
    (LookupReturnedList /\ Cardinality(MatchIdx) = 1
     /\ \A i \in MatchIdx : upstream.appts[i].startTime \in UnreadableStarts) =>
        /\ response = [statusCode |-> 200, json |-> TRUE, valid |-> FALSE,
                       error |-> "Could not read appointment start time.",
                       time |-> <<>>]
        /\ logged = NoErr
        /\ reached = "start"

\* The unreadable-start answer for a lone match whose start is the empty string.
C10_Witness ==
    /\ LookupReturnedList /\ Cardinality(MatchIdx) = 1
    /\ \A i \in MatchIdx : upstream.appts[i].startTime = Str(<<>>)
    /\ response.error = StartTimeError /\ reached = "start"

\* C11: against a service that holds one appointment whose contactId ends
\* with the code, with start s, and answers each lookup with exactly the
\* appointments starting inside the queried range, every request evaluated
\* at an instant t with s - 2h <= t <= s + 4h is answered valid:true,
\* whatever the offset and whatever local day s falls on.
C11_WindowHonoredEndToEnd ==
    (pc = "done" /\ event.httpMethod = "POST" /\ code = TheCode
     /\ upstream.kind = "response"
     /\ InWindow(StartInstant, clock))
    => response.valid

====
